---- MODULE Spec2Model ----
(***************************************************************************)
(* DCF valuation core of Financial-analysis: src/src/dcf_model.py and      *)
(* src/src/valuation.py, and the extraction of the free cash flows in      *)
(* src/src/data_fetcher.py.                                                *)
(*                                                                         *)
(* Numbers.  Every Python float is a fixed-point integer: the float x is   *)
(* the integer x * SCALE, so 0.045 is 450 and 1.0 is 10000.  Each          *)
(* arithmetic operation rounds its exact result to the nearest             *)
(* representable value, as the floating-point operation does at its own    *)
(* resolution.  Plain Python ints (len(...), the year index t) stay ints.  *)
(*                                                                         *)
(* Outcomes.  A call either returns a value or raises; an outcome is the   *)
(* record [exc, value] with exc = "none" for a normal return.              *)
(***************************************************************************)
EXTENDS Integers, Sequences, FiniteSets, TLC

VARIABLES pc, company_data, growth_rate, wacc, valuation, upside_pct, signal, row,
          args, result, company_data_list, position, rows

vars == <<pc, company_data, growth_rate, wacc, valuation, upside_pct, signal, row, args, result, company_data_list, position, rows>>

----------------------------------------------------------------------------
(* Fixed-point arithmetic *)

SCALE == 10 * 10 * 10 * 10

\* The element of a singleton set.  The({body : x \in {v}}) is the body after
\* the assignment x = v: v is evaluated once and the body reads the value.
The(S) == CHOOSE x \in S : TRUE

Abs(x) == IF x < 0 THEN -x ELSE x

Sgn(x) == IF x < 0 THEN -1 ELSE 1

Max2(a, b) == IF a >= b THEN a ELSE b

Min2(a, b) == IF a <= b THEN a ELSE b

\* a * b for fixed-point operands, rounded to nearest (ties away from zero).
\* The operands are split at SCALE so that no partial product leaves 32 bits.
MulAbs(a, b) ==
    LET a1 == a \div SCALE
        a0 == a % SCALE
        b1 == b \div SCALE
        b0 == b % SCALE
    IN  a1 * b + a0 * b1 + (a0 * b0 + SCALE \div 2) \div SCALE

MulFix(a, b) ==
    The({Sgn(p[1]) * Sgn(p[2]) * MulAbs(Abs(p[1]), Abs(p[2])) : p \in {<<a, b>>}})

\* The k fractional decimal digits of r / b (0 <= r < b), and the rounding bit.
RECURSIVE LongDiv(_, _, _)
LongDiv(r, b, k) ==
    IF k = 0
    THEN (IF 2 * r >= b THEN 1 ELSE 0)
    ELSE ((r * 10) \div b) * (10 ^ (k - 1)) + LongDiv((r * 10) % b, b, k - 1)

DivAbs(a, b) == (a \div b) * SCALE + LongDiv(a % b, b, 4)

\* a / b for fixed-point operands, b # 0, rounded to nearest.
DivFix(a, b) ==
    The({Sgn(p[1]) * Sgn(p[2]) * DivAbs(Abs(p[1]), Abs(p[2])) : p \in {<<a, b>>}})

\* x ** t for a fixed-point x and an int t >= 0.
RECURSIVE PowFix(_, _)
PowFix(x, t) == IF t = 0 THEN SCALE ELSE MulFix(PowFix(x, t - 1), x)

\* The largest r in lo..hi-1 with r ** n <= q, given lo ** n <= q < hi ** n.
RECURSIVE Bisect(_, _, _, _)
Bisect(lo, hi, q, n) ==
    IF hi - lo <= 1
    THEN lo
    ELSE LET mid == (lo + hi) \div 2
         IN  IF PowFix(mid, n) <= q
             THEN Bisect(mid, hi, q, n)
             ELSE Bisect(lo, mid, q, n)

\* q ** (1.0 / n) for q >= 0 and an int n >= 1: the n-th root of q.
RootFix(q, n) == IF n = 1 THEN q ELSE Bisect(0, Max2(q, SCALE) + 1, q, n)

\* round(x, ndigits) for ndigits in 0..4: to the nearest multiple of
\* 10 ** -ndigits, ties to the even multiple.
Round(x, ndigits) ==
    LET unit == 10 ^ (4 - ndigits)
        a    == Abs(x)
        q    == a \div unit
        r    == a % unit
        up   == \/ 2 * r > unit
                \/ 2 * r = unit /\ q % 2 = 1
    IN  Sgn(x) * unit * (IF up THEN q + 1 ELSE q)

Return(v) == [exc |-> "none", value |-> v]

Raise(e) == [exc |-> e, value |-> 0]

Unset == [exc |-> "unset", value |-> 0]

----------------------------------------------------------------------------
(* dcf_model.py: macro assumptions *)

RISK_FREE_RATE == 450

EQUITY_RISK_PREMIUM == 550

LONG_TERM_GROWTH_RATE == 250

FCF_EXIT_MULTIPLE == 200000

PROJECTION_YEARS == 7

MAX_INITIAL_GROWTH == 3000

MIN_INITIAL_GROWTH == -2000

\* Mutant of _clamp: the upper limit is forgotten.
_clamp_low_only(value, low, high) == Max2(low, value)

_clamp(value, low, high) == Max2(low, Min2(high, value))

----------------------------------------------------------------------------
(* dcf_model.py: calculate_historical_growth_rate *)

\* seq[-k:]
LastN(seq, k) ==
    IF Len(seq) <= k THEN seq ELSE SubSeq(seq, Len(seq) - k + 1, Len(seq))

\* Python's a / b on floats.
Divide(a, b) == IF b = 0 THEN Raise("ZeroDivisionError") ELSE Return(DivFix(a, b))

\* Python's base ** (1.0 / n) on floats, n an int >= 1.  A negative base yields
\* a complex number, on which the min() of _clamp raises TypeError.
Power(base, n) == IF base < 0 THEN Raise("TypeError") ELSE Return(RootFix(base, n))

\* Mutant of YoyRates: the guard tests curr alone, so prev = 0 is divided by.
RECURSIVE YoyRates_curr_only(_, _)
YoyRates_curr_only(fcf, i) ==
    IF i >= Len(fcf)
    THEN Return(<<>>)
    ELSE The({
        IF fcf[i + 1] > 0
        THEN The({
            IF quot.exc # "none" THEN quot
            ELSE IF rest.exc # "none" THEN rest
            ELSE Return(<<quot.value - SCALE>> \o rest.value)
          : quot \in {Divide(fcf[i + 1], fcf[i])}})
        ELSE rest
      : rest \in {YoyRates_curr_only(fcf, i + 1)}})

\* The list yoy_rates built by the loop over the adjacent pairs i.. of fcf.
RECURSIVE YoyRates(_, _)
YoyRates(fcf, i) ==
    IF i >= Len(fcf)
    THEN Return(<<>>)
    ELSE LET prev == fcf[i]
             curr == fcf[i + 1]
         IN  The({
                IF prev > 0 /\ curr > 0
                THEN The({
                    IF quot.exc # "none" THEN quot
                    ELSE IF rest.exc # "none" THEN rest
                    ELSE Return(<<quot.value - SCALE>> \o rest.value)
                  : quot \in {Divide(curr, prev)}})
                ELSE rest
              : rest \in {YoyRates(fcf, i + 1)}})

RECURSIVE SumSeq(_)
SumSeq(s) == IF s = <<>> THEN 0 ELSE Head(s) + SumSeq(Tail(s))

\* (last / first) ** (1.0 / n) - 1.0
Cagr(first, last, n) ==
    The({
        IF ratio.exc # "none" THEN ratio
        ELSE The({
            IF root.exc # "none" THEN root ELSE Return(root.value - SCALE)
          : root \in {Power(ratio.value, n)}})
      : ratio \in {Divide(last, first)}})

\* Mutant of GrowthFromWindow: the average divides by the number of adjacent
\* pairs of the window, usable or not.
GrowthFromWindow_all_pairs(fcf) ==
    IF fcf[1] > 0 /\ fcf[Len(fcf)] > 0 /\ Len(fcf) - 1 > 0
    THEN The({
            IF cagr.exc # "none" THEN cagr
            ELSE Return(_clamp(cagr.value, MIN_INITIAL_GROWTH,
                               MAX_INITIAL_GROWTH))
          : cagr \in {Cagr(fcf[1], fcf[Len(fcf)], Len(fcf) - 1)}})
    ELSE The({
            IF yoy_rates.exc # "none" THEN yoy_rates
            ELSE IF yoy_rates.value # <<>>
            THEN Return(_clamp(DivFix(SumSeq(yoy_rates.value),
                                      (Len(fcf) - 1) * SCALE),
                               MIN_INITIAL_GROWTH, MAX_INITIAL_GROWTH))
            ELSE Return(300)
          : yoy_rates \in {YoyRates(fcf, 1)}})

\* Lines 50-67: the estimate from the window fcf = historical_fcf[-5:].
GrowthFromWindow(fcf) ==
    LET first == fcf[1]
        last  == fcf[Len(fcf)]
        n     == Len(fcf) - 1
    IN  IF first > 0 /\ last > 0 /\ n > 0
        THEN The({
                IF cagr.exc # "none" THEN cagr
                ELSE Return(_clamp(cagr.value, MIN_INITIAL_GROWTH,
                                   MAX_INITIAL_GROWTH))
              : cagr \in {Cagr(first, last, n)}})
        ELSE The({
                IF yoy_rates.exc # "none" THEN yoy_rates
                ELSE IF yoy_rates.value # <<>>
                THEN LET avg_rate == DivFix(SumSeq(yoy_rates.value),
                                            Len(yoy_rates.value) * SCALE)
                     IN  Return(_clamp(avg_rate, MIN_INITIAL_GROWTH,
                                       MAX_INITIAL_GROWTH))
                ELSE Return(300)
              : yoy_rates \in {YoyRates(fcf, 1)}})

\* Mutant of calculate_historical_growth_rate: the whole history is the window.
calculate_historical_growth_rate_no_window(historical_fcf) ==
    IF Len(historical_fcf) < 2
    THEN Return(500)
    ELSE GrowthFromWindow(historical_fcf)

\* Mutant of calculate_historical_growth_rate: the default needs an empty list.
calculate_historical_growth_rate_len1(historical_fcf) ==
    IF Len(historical_fcf) < 1
    THEN Return(500)
    ELSE GrowthFromWindow(LastN(historical_fcf, 5))

calculate_historical_growth_rate(historical_fcf) ==
    IF Len(historical_fcf) < 2
    THEN Return(500)
    ELSE GrowthFromWindow(LastN(historical_fcf, 5))

----------------------------------------------------------------------------
(* dcf_model.py: calculate_wacc *)

\* Mutant of CostOfDebt: the ratio is used without the clamp to [0.01, 0.20].
CostOfDebt_unclamped(total_debt, interest_expense, risk_free_rate) ==
    IF total_debt > 0 /\ interest_expense > 0
    THEN Divide(interest_expense, total_debt)
    ELSE Return(risk_free_rate + 150)

\* Lines 105-112: cost_of_debt.
CostOfDebt(total_debt, interest_expense, risk_free_rate) ==
    IF total_debt > 0 /\ interest_expense > 0
    THEN The({
            IF cost_of_debt.exc # "none" THEN cost_of_debt
            ELSE Return(_clamp(cost_of_debt.value, 100, 2000))
          : cost_of_debt \in {Divide(interest_expense, total_debt)}})
    ELSE Return(risk_free_rate + 150)

\* Lines 120-123: the weighted sum, for total_capital > 0.
WeightedCost(market_cap, total_debt, cost_of_equity, after_tax_cost_of_debt) ==
    LET total_capital == market_cap + total_debt
    IN  The({
            IF equity_weight.exc # "none" THEN equity_weight
            ELSE IF debt_weight.exc # "none" THEN debt_weight
            ELSE Return(MulFix(equity_weight.value, cost_of_equity)
                         + MulFix(debt_weight.value, after_tax_cost_of_debt))
          : equity_weight \in {Divide(market_cap, total_capital)},
            debt_weight \in {Divide(total_debt, total_capital)}})

\* Mutant of calculate_wacc: the weighted sum is returned as it is.
calculate_wacc_unclamped(beta, market_cap, total_debt, interest_expense, tax_rate, risk_free_rate, equity_risk_premium) ==
    LET cost_of_equity == risk_free_rate + MulFix(beta, equity_risk_premium)
    IN  The({
            IF cost_of_debt.exc # "none" THEN cost_of_debt
            ELSE IF market_cap + total_debt <= 0 THEN Return(cost_of_equity)
            ELSE WeightedCost(market_cap, total_debt, cost_of_equity,
                              MulFix(cost_of_debt.value, SCALE - tax_rate))
          : cost_of_debt \in {CostOfDebt(total_debt, interest_expense,
                                         risk_free_rate)}})

\* Mutant of calculate_wacc: the cost of equity returned for total_capital <= 0
\* is clamped like the weighted sum.
calculate_wacc_clamped_edge(beta, market_cap, total_debt, interest_expense, tax_rate, risk_free_rate, equity_risk_premium) ==
    The({
        IF w.exc = "none" THEN Return(_clamp(w.value, 400, 2500)) ELSE w
      : w \in {calculate_wacc_unclamped(beta, market_cap, total_debt,
                   interest_expense, tax_rate, risk_free_rate,
                   equity_risk_premium)}})

calculate_wacc(beta, market_cap, total_debt, interest_expense, tax_rate, risk_free_rate, equity_risk_premium) ==
    LET cost_of_equity == risk_free_rate + MulFix(beta, equity_risk_premium)
        total_capital  == market_cap + total_debt
    IN  The({
            IF cost_of_debt.exc # "none" THEN cost_of_debt
            ELSE IF total_capital <= 0 THEN Return(cost_of_equity)
            ELSE The({
                    IF weighted.exc # "none" THEN weighted
                    ELSE Return(_clamp(weighted.value, 400, 2500))
                  : weighted \in
                      {WeightedCost(market_cap, total_debt, cost_of_equity,
                           MulFix(cost_of_debt.value, SCALE - tax_rate))}})
          : cost_of_debt \in {CostOfDebt(total_debt, interest_expense,
                                         risk_free_rate)}})

----------------------------------------------------------------------------
(* dcf_model.py: project_free_cash_flows *)

\* Mutant of FadedGrowth: the fade divides by years, so the final year stops
\* short of long_term_growth_rate.
FadedGrowth_by_years(t, initial_growth_rate, years, long_term_growth_rate) ==
    LET fade_factor == DivFix((t - 1) * SCALE, Max2(years, 1) * SCALE)
    IN  initial_growth_rate
          + MulFix(fade_factor, long_term_growth_rate - initial_growth_rate)

\* The growth rate applied in year t (t an int in 1..years).
FadedGrowth(t, initial_growth_rate, years, long_term_growth_rate) ==
    LET fade_factor == DivFix((t - 1) * SCALE, Max2(years - 1, 1) * SCALE)
    IN  initial_growth_rate
          + MulFix(fade_factor, long_term_growth_rate - initial_growth_rate)

\* The list projected after the loop has run for years t..years, entered with
\* current_fcf.
RECURSIVE ProjectFrom(_, _, _, _, _)
ProjectFrom(t, current_fcf, initial_growth_rate, years, long_term_growth_rate) ==
    IF t > years
    THEN <<>>
    ELSE The({
            <<next_fcf>> \o ProjectFrom(t + 1, next_fcf, initial_growth_rate,
                                        years, long_term_growth_rate)
          : next_fcf \in
              {MulFix(current_fcf,
                      SCALE + FadedGrowth(t, initial_growth_rate, years,
                                          long_term_growth_rate))}})

project_free_cash_flows(base_fcf, initial_growth_rate, years, long_term_growth_rate) ==
    ProjectFrom(1, base_fcf, initial_growth_rate, years, long_term_growth_rate)

----------------------------------------------------------------------------
(* dcf_model.py: calculate_terminal_value *)

\* Mutant of calculate_terminal_value: the spread is divided by as it is.
calculate_terminal_value_no_floor(terminal_fcf, wacc_, long_term_growth_rate, exit_multiple) ==
    The({
        IF tv_perpetuity.exc # "none" THEN tv_perpetuity
        ELSE Return(DivFix(tv_perpetuity.value
                             + MulFix(terminal_fcf, exit_multiple), 2 * SCALE))
      : tv_perpetuity \in
          {Divide(MulFix(terminal_fcf, SCALE + long_term_growth_rate),
                  wacc_ - long_term_growth_rate)}})

calculate_terminal_value(terminal_fcf, wacc_, long_term_growth_rate, exit_multiple) ==
    LET spread0 == wacc_ - long_term_growth_rate
        spread  == IF spread0 <= 10 THEN 10 ELSE spread0
        tv_exit_multiple == MulFix(terminal_fcf, exit_multiple)
    IN  The({
            IF tv_perpetuity.exc # "none" THEN tv_perpetuity
            ELSE Return(DivFix(tv_perpetuity.value + tv_exit_multiple,
                               2 * SCALE))
          : tv_perpetuity \in
              {Divide(MulFix(terminal_fcf, SCALE + long_term_growth_rate),
                      spread)}})

----------------------------------------------------------------------------
(* dcf_model.py: discount_cash_flows *)

\* pv_sum after the loop has added the terms of years t..Len(cash_flows) to acc.
RECURSIVE DiscountFrom(_, _, _, _)
DiscountFrom(t, acc, cash_flows, wacc_) ==
    IF t > Len(cash_flows)
    THEN Return(acc)
    ELSE The({
            IF term.exc # "none" THEN term
            ELSE DiscountFrom(t + 1, acc + term.value, cash_flows, wacc_)
          : term \in {Divide(cash_flows[t], PowFix(SCALE + wacc_, t))}})

\* Mutant of discount_cash_flows: the terminal value is discounted one year
\* further than the last cash flow.
discount_cash_flows_tv_next_year(cash_flows, terminal_value, wacc_) ==
    The({
        IF pv_sum.exc # "none" THEN pv_sum
        ELSE The({
                IF pv_tv.exc # "none" THEN pv_tv
                ELSE Return(pv_sum.value + pv_tv.value)
              : pv_tv \in {Divide(terminal_value,
                                  PowFix(SCALE + wacc_, Len(cash_flows) + 1))}})
      : pv_sum \in {DiscountFrom(1, 0, cash_flows, wacc_)}})

\* Mutant of discount_cash_flows: the cash flows and the terminal value are
\* compounded at wacc instead of discounted.
discount_cash_flows_compounded(cash_flows, terminal_value, wacc_) ==
    Return(SumSeq([t \in 1..Len(cash_flows) |->
                      MulFix(cash_flows[t], PowFix(SCALE + wacc_, t))])
             + MulFix(terminal_value, PowFix(SCALE + wacc_, Len(cash_flows))))

discount_cash_flows(cash_flows, terminal_value, wacc_) ==
    The({
        IF pv_sum.exc # "none" THEN pv_sum
        ELSE The({
                IF pv_tv.exc # "none" THEN pv_tv
                ELSE Return(pv_sum.value + pv_tv.value)
              : pv_tv \in {Divide(terminal_value,
                                  PowFix(SCALE + wacc_, Len(cash_flows)))}})
      : pv_sum \in {DiscountFrom(1, 0, cash_flows, wacc_)}})

----------------------------------------------------------------------------
(* dcf_model.py: calculate_intrinsic_value *)

NoneValue == [kind |-> "None"]

Raised(e) == [kind |-> "raise", exc |-> e]

\* The result dict of lines 296-306.
ResultDict(cd, base_fcf, g, w, intrinsic_value_per_share) ==
    [kind |-> "dict",
     ticker |-> cd.ticker,
     name |-> cd.name,
     sector |-> cd.sector,
     current_price |-> cd.current_price,
     intrinsic_value |-> Round(intrinsic_value_per_share, 2),
     wacc |-> Round(w, 4),
     fcf_growth_rate |-> Round(g, 4),
     base_fcf |-> Round(base_fcf, 0),
     shares_outstanding |-> cd.shares_outstanding]

\* Mutant of IntrinsicValueTail: the debt is not subtracted.
IntrinsicValueTail_no_debt(cd, base_fcf, g, w, equity_value) ==
    IF cd.shares_outstanding <= 0 THEN NoneValue
    ELSE The({
            IF per_share.exc # "none" THEN Raised(per_share.exc)
            ELSE ResultDict(cd, base_fcf, g, w, per_share.value)
          : per_share \in {Divide(equity_value, cd.shares_outstanding)}})

\* Mutant of IntrinsicValueTail: the debt is added instead of subtracted.
IntrinsicValueTail_adds_debt(cd, base_fcf, g, w, equity_value) ==
    IF cd.shares_outstanding <= 0 THEN NoneValue
    ELSE The({
            IF per_share.exc # "none" THEN Raised(per_share.exc)
            ELSE ResultDict(cd, base_fcf, g, w, per_share.value)
          : per_share \in {Divide(equity_value + cd.total_debt,
                                  cd.shares_outstanding)}})

\* Mutant of IntrinsicValueTail: only a negative share count is rejected.
IntrinsicValueTail_negative_only(cd, base_fcf, g, w, equity_value) ==
    IF cd.shares_outstanding < 0 THEN NoneValue
    ELSE The({
            IF per_share.exc # "none" THEN Raised(per_share.exc)
            ELSE ResultDict(cd, base_fcf, g, w, per_share.value)
          : per_share \in {Divide(equity_value - cd.total_debt,
                                  cd.shares_outstanding)}})

\* Lines 285-306, entered with the locals of the steps before.
IntrinsicValueTail(cd, base_fcf, g, w, equity_value) ==
    LET net_debt == cd.total_debt
        equity_value_adjusted == equity_value - net_debt
        shares == cd.shares_outstanding
    IN  IF shares <= 0 THEN NoneValue
        ELSE The({
                IF intrinsic_value_per_share.exc # "none"
                THEN Raised(intrinsic_value_per_share.exc)
                ELSE ResultDict(cd, base_fcf, g, w,
                                intrinsic_value_per_share.value)
              : intrinsic_value_per_share \in
                  {Divide(equity_value_adjusted, shares)}})

\* Lines 276-283, entered with projected_fcf: steps 4 and 5, then the tail.
IntrinsicValueFromProjection(cd, base_fcf, g, w, projected_fcf) ==
    The({
        IF terminal_value.exc # "none" THEN Raised(terminal_value.exc)
        ELSE The({
                IF equity_value.exc # "none" THEN Raised(equity_value.exc)
                ELSE IntrinsicValueTail(cd, base_fcf, g, w, equity_value.value)
              : equity_value \in
                  {discount_cash_flows(projected_fcf, terminal_value.value, w)}})
      : terminal_value \in
          {calculate_terminal_value(projected_fcf[Len(projected_fcf)], w,
                                    LONG_TERM_GROWTH_RATE, FCF_EXIT_MULTIPLE)}})

\* Lines 269-283: steps 3 to 5, then the tail.
IntrinsicValueSteps(cd, base_fcf, g, w) ==
    The({
        IntrinsicValueFromProjection(cd, base_fcf, g, w, projected_fcf)
      : projected_fcf \in
          {project_free_cash_flows(base_fcf, g, PROJECTION_YEARS,
                                   LONG_TERM_GROWTH_RATE)}})

\* Mutant of RecoveryGrowth: a negative base FCF sets the rate to 0.05, the
\* estimate discarded.
RecoveryGrowth_flat(base_fcf, g0) == IF base_fcf < 0 THEN 500 ELSE g0

\* The recovery assumption of lines 251-258.
RecoveryGrowth(base_fcf, g0) == IF base_fcf < 0 THEN Max2(g0, 500) ELSE g0

\* Mutant of GrowthStep: a zero base FCF is projected like any other.
GrowthStep_zero_base(historical_fcf) ==
    IF historical_fcf = <<>> THEN NoneValue
    ELSE The({
            IF g0.exc # "none" THEN Raised(g0.exc)
            ELSE [kind |-> "growth",
                  growth_rate |->
                      RecoveryGrowth(historical_fcf[Len(historical_fcf)],
                                     g0.value)]
          : g0 \in {calculate_historical_growth_rate(historical_fcf)}})

\* Mutant of GrowthStep: a history of fewer than two values is rejected.
GrowthStep_two_points(historical_fcf) ==
    IF Len(historical_fcf) < 2 THEN NoneValue
    ELSE IF historical_fcf[Len(historical_fcf)] = 0 THEN NoneValue
    ELSE The({
            IF g0.exc # "none" THEN Raised(g0.exc)
            ELSE [kind |-> "growth",
                  growth_rate |->
                      RecoveryGrowth(historical_fcf[Len(historical_fcf)],
                                     g0.value)]
          : g0 \in {calculate_historical_growth_rate(historical_fcf)}})

\* Lines 237-258: the guards on the history and step 1.  None for an early
\* return, else the growth rate the projection uses.
GrowthStep(historical_fcf) ==
    LET base_fcf == historical_fcf[Len(historical_fcf)]
    IN  IF historical_fcf = <<>> THEN NoneValue
        ELSE IF base_fcf = 0 THEN NoneValue
        ELSE The({
                IF g0.exc # "none" THEN Raised(g0.exc)
                ELSE [kind |-> "growth",
                      growth_rate |-> RecoveryGrowth(base_fcf, g0.value)]
              : g0 \in {calculate_historical_growth_rate(historical_fcf)}})

\* The locals growth_rate and wacc as the call leaves them, and what the call
\* returns (ret): None, the result dict, or the exception that escapes.
IntrinsicValueRun(cd) ==
    LET historical_fcf == cd.historical_fcf
        base_fcf == historical_fcf[Len(historical_fcf)]
    IN  The({
            IF step.kind # "growth"
            THEN [growth_rate |-> Unset, wacc |-> Unset, ret |-> step]
            ELSE The({
                    IF w.exc # "none"
                    THEN [growth_rate |-> Return(step.growth_rate),
                          wacc |-> w, ret |-> Raised(w.exc)]
                    ELSE [growth_rate |-> Return(step.growth_rate),
                          wacc |-> w,
                          ret |-> IntrinsicValueSteps(cd, base_fcf,
                                      step.growth_rate, w.value)]
                  : w \in {calculate_wacc(cd.beta, cd.market_cap,
                               cd.total_debt, cd.interest_expense, cd.tax_rate,
                               RISK_FREE_RATE, EQUITY_RISK_PREMIUM)}})
          : step \in {GrowthStep(historical_fcf)}})

calculate_intrinsic_value(cd) == IntrinsicValueRun(cd).ret

----------------------------------------------------------------------------
(* valuation.py *)

BUY_THRESHOLD == 1500

SELL_THRESHOLD == -1500

\* Mutant of generate_signal: the thresholds are exclusive.
generate_signal_exclusive(upside) ==
    IF upside > BUY_THRESHOLD THEN "Buy"
    ELSE IF upside < SELL_THRESHOLD THEN "Sell"
    ELSE "Hold"

generate_signal(upside) ==
    IF upside >= BUY_THRESHOLD THEN "Buy"
    ELSE IF upside <= SELL_THRESHOLD THEN "Sell"
    ELSE "Hold"

\* The row dict of lines 57-67.
RowDict(v, upside, sig) ==
    [kind |-> "dict",
     Ticker |-> v.ticker,
     Company |-> v.name,
     Sector |-> v.sector,
     CurrentPrice |-> Round(v.current_price, 2),
     IntrinsicValue |-> Round(v.intrinsic_value, 2),
     UpsideDownsidePct |-> Round(MulFix(upside, 100 * SCALE), 1),
     ValuationSignal |-> sig,
     WaccPct |-> Round(MulFix(v.wacc, 100 * SCALE), 2),
     FcfGrowthRatePct |-> Round(MulFix(v.fcf_growth_rate, 100 * SCALE), 2)]

\* Mutant of ValuationRowRun: the signal is taken from the percentage as
\* displayed, rounded to one decimal.
ValuationRowRun_from_display(v) ==
    IF v.current_price <= 0
    THEN [upside_pct |-> Unset, signal |-> "unset", ret |-> NoneValue]
    ELSE The({
            IF upside.exc # "none"
            THEN [upside_pct |-> upside, signal |-> "unset",
                  ret |-> Raised(upside.exc)]
            ELSE The({
                    [upside_pct |-> upside, signal |-> sig,
                     ret |-> RowDict(v, upside.value, sig)]
                  : sig \in {generate_signal(
                                DivFix(Round(MulFix(upside.value, 100 * SCALE), 1),
                                       100 * SCALE))}})
          : upside \in {Divide(v.intrinsic_value - v.current_price,
                               v.current_price)}})

\* Mutant of ValuationRowRun: only a negative price is rejected.
ValuationRowRun_negative_only(v) ==
    IF v.current_price < 0
    THEN [upside_pct |-> Unset, signal |-> "unset", ret |-> NoneValue]
    ELSE The({
            IF upside.exc # "none"
            THEN [upside_pct |-> upside, signal |-> "unset",
                  ret |-> Raised(upside.exc)]
            ELSE [upside_pct |-> upside,
                  signal |-> generate_signal(upside.value),
                  ret |-> RowDict(v, upside.value,
                                  generate_signal(upside.value))]
          : upside \in {Divide(v.intrinsic_value - v.current_price,
                               v.current_price)}})

\* The locals upside_pct and signal as the call leaves them, and what the call
\* returns (ret): None, the row dict, or the exception that escapes.
ValuationRowRun(v) ==
    LET current_price == v.current_price
        intrinsic_value == v.intrinsic_value
    IN  IF current_price <= 0
        THEN [upside_pct |-> Unset, signal |-> "unset", ret |-> NoneValue]
        ELSE The({
                IF upside.exc # "none"
                THEN [upside_pct |-> upside, signal |-> "unset",
                      ret |-> Raised(upside.exc)]
                ELSE The({
                        [upside_pct |-> upside, signal |-> sig,
                         ret |-> RowDict(v, upside.value, sig)]
                      : sig \in {generate_signal(upside.value)}})
              : upside \in {Divide(intrinsic_value - current_price,
                                   current_price)}})

build_valuation_row(v) == ValuationRowRun(v).ret

----------------------------------------------------------------------------
(* Inputs *)

MaxHistory == 6

MaxYears == 2

MaxUpside == 2000

\* Annual free cash flows: a loss, zero, and profits whose ratios give growth
\* rates inside and outside [MIN_INITIAL_GROWTH, MAX_INITIAL_GROWTH].
FcfValues == {-10000, 0, 10000, 12000, 20000}

SeqsUpTo(S, n) == UNION {[1..k -> S] : k \in 0..n}

Histories == SeqsUpTo(FcfValues, MaxHistory)

Betas == {-10000, 5000, 10000, 12000, 50000}

MarketCaps == {-10000, 0, 10000, 1500000}

TotalDebts == {0, 10000, 200000}

InterestExpenses == {-1000, 0, 10, 1000, 100000}

TaxRates == {-5000, 0, 2100, 10000, 15000}

WaccInputs ==
    [beta : Betas, market_cap : MarketCaps, total_debt : TotalDebts,
     interest_expense : InterestExpenses, tax_rate : TaxRates]

\* Company records as calculate_intrinsic_value may receive them.
CompanyRecords ==
    [ticker : {"TEST"}, name : {"Test Corp"}, sector : {"Technology"},
     current_price : {-10000, 0, 200000, 1500000},
     shares_outstanding : {-10000, 0, 20000},
     historical_fcf : SeqsUpTo({-10000, 0, 10000, 20000}, MaxYears),
     beta : {12000, 50000},
     market_cap : {0, 1500000},
     total_debt : {0, 200000},
     interest_expense : {10000},
     tax_rate : {2100}]

----------------------------------------------------------------------------
(* generate_signal on its own *)

InitSignal ==
    /\ pc = "generate_signal"
    /\ upside_pct \in {Return(u) : u \in -MaxUpside..MaxUpside}
    /\ signal = "unset"
    /\ company_data = NoneValue
    /\ growth_rate = Unset
    /\ wacc = Unset
    /\ valuation = NoneValue
    /\ row = NoneValue
    /\ args = NoneValue
    /\ result = NoneValue
    /\ company_data_list = <<>>
    /\ position = 0
    /\ rows = <<>>

GenerateSignal ==
    /\ pc = "generate_signal"
    /\ signal' = generate_signal(upside_pct.value)
    /\ pc' = "returned"
    /\ UNCHANGED <<company_data, growth_rate, wacc, valuation, upside_pct, row,
                 args, result, company_data_list, position, rows>>

NextSignal == GenerateSignal

SpecSignal == InitSignal /\ [][NextSignal]_vars

----------------------------------------------------------------------------
(* Growth estimation: calculate_historical_growth_rate, and step 1 of
   calculate_intrinsic_value, which applies it *)

InitGrowth ==
    /\ pc = "calculate_historical_growth_rate"
    /\ company_data \in [historical_fcf : Histories]
    /\ growth_rate = Unset
    /\ wacc = Unset
    /\ valuation = NoneValue
    /\ upside_pct = Unset
    /\ signal = "unset"
    /\ row = NoneValue
    /\ args = NoneValue
    /\ result = NoneValue
    /\ company_data_list = <<>>
    /\ position = 0
    /\ rows = <<>>

\* growth_rate: what calculate_historical_growth_rate returns for the history;
\* valuation: what step 1 of calculate_intrinsic_value makes of it.
EstimateGrowth ==
    /\ pc = "calculate_historical_growth_rate"
    /\ growth_rate' = calculate_historical_growth_rate(company_data.historical_fcf)
    /\ valuation' = GrowthStep(company_data.historical_fcf)
    /\ pc' = "returned"
    /\ UNCHANGED <<company_data, wacc, upside_pct, signal, row,
                 args, result, company_data_list, position, rows>>

NextGrowth == EstimateGrowth

SpecGrowth == InitGrowth /\ [][NextGrowth]_vars

----------------------------------------------------------------------------
(* calculate_wacc on its own *)

InitWacc ==
    /\ pc = "calculate_wacc"
    /\ company_data \in WaccInputs
    /\ growth_rate = Unset
    /\ wacc = Unset
    /\ valuation = NoneValue
    /\ upside_pct = Unset
    /\ signal = "unset"
    /\ row = NoneValue
    /\ args = NoneValue
    /\ result = NoneValue
    /\ company_data_list = <<>>
    /\ position = 0
    /\ rows = <<>>

EstimateWacc ==
    /\ pc = "calculate_wacc"
    /\ wacc' = calculate_wacc(company_data.beta, company_data.market_cap,
                              company_data.total_debt,
                              company_data.interest_expense,
                              company_data.tax_rate,
                              RISK_FREE_RATE, EQUITY_RISK_PREMIUM)
    /\ pc' = "returned"
    /\ UNCHANGED <<company_data, growth_rate, valuation, upside_pct, signal, row,
                 args, result, company_data_list, position, rows>>

NextWacc == EstimateWacc

SpecWacc == InitWacc /\ [][NextWacc]_vars

----------------------------------------------------------------------------
(* The per-company pipeline: the body of run_valuation's loop *)

Init ==
    /\ pc = "calculate_intrinsic_value"
    /\ company_data \in CompanyRecords
    /\ growth_rate = Unset
    /\ wacc = Unset
    /\ valuation = NoneValue
    /\ upside_pct = Unset
    /\ signal = "unset"
    /\ row = NoneValue
    /\ args = NoneValue
    /\ result = NoneValue
    /\ company_data_list = <<>>
    /\ position = 0
    /\ rows = <<>>

CalculateIntrinsicValue ==
    /\ pc = "calculate_intrinsic_value"
    /\ LET run == IntrinsicValueRun(company_data)
       IN  /\ growth_rate' = run.growth_rate
           /\ wacc' = run.wacc
           /\ valuation' = run.ret
           /\ pc' = CASE run.ret.kind = "None"  -> "skipped"
                      [] run.ret.kind = "raise" -> "raised"
                      [] OTHER                  -> "build_valuation_row"
    /\ UNCHANGED <<company_data, upside_pct, signal, row,
                 args, result, company_data_list, position, rows>>

BuildValuationRow ==
    /\ pc = "build_valuation_row"
    /\ LET run == ValuationRowRun(valuation)
       IN  /\ upside_pct' = run.upside_pct
           /\ signal' = run.signal
           /\ row' = run.ret
           /\ pc' = CASE run.ret.kind = "None"  -> "skipped"
                      [] run.ret.kind = "raise" -> "raised"
                      [] OTHER                  -> "appended"
    /\ UNCHANGED <<company_data, growth_rate, wacc, valuation,
                 args, result, company_data_list, position, rows>>

Next == CalculateIntrinsicValue \/ BuildValuationRow

Spec == Init /\ [][Next]_vars

----------------------------------------------------------------------------
(* project_free_cash_flows on its own *)

MaxProjectionYears == 7

BaseFcfs == {-10000, 10000, 20000}

InitialGrowthRates == {-2000, 0, 250, 500, 3000}

LongTermGrowthRates == {-100, 250, 900}

ProjectInputs ==
    [base_fcf : BaseFcfs, initial_growth_rate : InitialGrowthRates,
     years : 0..MaxProjectionYears,
     long_term_growth_rate : LongTermGrowthRates]

InitProject ==
    /\ pc = "project_free_cash_flows"
    /\ args \in ProjectInputs
    /\ result = NoneValue
    /\ company_data = NoneValue
    /\ growth_rate = Unset
    /\ wacc = Unset
    /\ valuation = NoneValue
    /\ upside_pct = Unset
    /\ signal = "unset"
    /\ row = NoneValue
    /\ company_data_list = <<>>
    /\ position = 0
    /\ rows = <<>>

ProjectFreeCashFlows ==
    /\ pc = "project_free_cash_flows"
    /\ result' = Return(project_free_cash_flows(args.base_fcf,
                            args.initial_growth_rate, args.years,
                            args.long_term_growth_rate))
    /\ pc' = "returned"
    /\ UNCHANGED <<company_data, growth_rate, wacc, valuation, upside_pct,
                   signal, row, args, company_data_list, position, rows>>

NextProject == ProjectFreeCashFlows

SpecProject == InitProject /\ [][NextProject]_vars

----------------------------------------------------------------------------
(* calculate_terminal_value on its own *)

TerminalFcfs == {-10000, 0, 10000, 561390}

\* Discount rates on both sides of the long-term growth rates, 0.001 away from
\* them, equal to them, and across the range calculate_wacc returns.
TerminalWaccs == {-1000, 0, 250, 255, 260, 261, 400, 1025, 2500, 3200}

TerminalGrowthRates == {-12000, -5000, 0, 250}

ExitMultiples == {-10000, 0, 10000, 200000}

TerminalInputs ==
    [terminal_fcf : TerminalFcfs, wacc : TerminalWaccs,
     long_term_growth_rate : TerminalGrowthRates,
     exit_multiple : ExitMultiples]

InitTerminal ==
    /\ pc = "calculate_terminal_value"
    /\ args \in TerminalInputs
    /\ result = NoneValue
    /\ company_data = NoneValue
    /\ growth_rate = Unset
    /\ wacc = Unset
    /\ valuation = NoneValue
    /\ upside_pct = Unset
    /\ signal = "unset"
    /\ row = NoneValue
    /\ company_data_list = <<>>
    /\ position = 0
    /\ rows = <<>>

CalculateTerminalValue ==
    /\ pc = "calculate_terminal_value"
    /\ result' = calculate_terminal_value(args.terminal_fcf, args.wacc,
                     args.long_term_growth_rate, args.exit_multiple)
    /\ pc' = "returned"
    /\ UNCHANGED <<company_data, growth_rate, wacc, valuation, upside_pct,
                   signal, row, args, company_data_list, position, rows>>

NextTerminal == CalculateTerminalValue

SpecTerminal == InitTerminal /\ [][NextTerminal]_vars

----------------------------------------------------------------------------
(* discount_cash_flows on its own *)

MaxFlows == 3

CashFlowValues == {-10000, 10000, 30000}

TerminalValues == {-50000, 0, 100000}

\* Discount rates: -1.0, where 1.0 + wacc is zero, a negative rate, zero, and
\* positive rates up to the upper clamp of calculate_wacc.
DiscountWaccs == {-10000, -5000, 0, 100, 400, 900, 2500}

DiscountInputs ==
    [cash_flows : SeqsUpTo(CashFlowValues, MaxFlows),
     terminal_value : TerminalValues, wacc : DiscountWaccs]

InitDiscount ==
    /\ pc = "discount_cash_flows"
    /\ args \in DiscountInputs
    /\ result = NoneValue
    /\ company_data = NoneValue
    /\ growth_rate = Unset
    /\ wacc = Unset
    /\ valuation = NoneValue
    /\ upside_pct = Unset
    /\ signal = "unset"
    /\ row = NoneValue
    /\ company_data_list = <<>>
    /\ position = 0
    /\ rows = <<>>

DiscountCashFlows ==
    /\ pc = "discount_cash_flows"
    /\ result' = discount_cash_flows(args.cash_flows, args.terminal_value,
                                     args.wacc)
    /\ pc' = "returned"
    /\ UNCHANGED <<company_data, growth_rate, wacc, valuation, upside_pct,
                   signal, row, args, company_data_list, position, rows>>

NextDiscount == DiscountCashFlows

SpecDiscount == InitDiscount /\ [][NextDiscount]_vars

----------------------------------------------------------------------------
(* valuation.py: run_valuation, from the fetched list on *)

MaxBatch == 3

\* Fetched records, one per ticker: a company that is valued and classified,
\* one whose latest FCF is zero (no valuation), one without a price (no row),
\* and one with a negative latest FCF.
BatchRecord(ticker, current_price, historical_fcf) ==
    [ticker |-> ticker, name |-> "Test Corp", sector |-> "Technology",
     current_price |-> current_price, shares_outstanding |-> 20000,
     historical_fcf |-> historical_fcf, beta |-> 12000,
     market_cap |-> 1500000, total_debt |-> 200000,
     interest_expense |-> 10000, tax_rate |-> 2100]

BatchRecords ==
    {BatchRecord("GOOD", 200000, <<10000, 20000>>),
     BatchRecord("ZERO", 200000, <<10000, 0>>),
     BatchRecord("NOPX", 0, <<10000, 20000>>),
     BatchRecord("LOSS", 1500000, <<10000, -10000>>)}

\* pd.DataFrame(rows_), and pd.DataFrame() for no rows.
DataFrame(rows_) == [kind |-> "DataFrame", rows |-> rows_]

\* The orders df.sort_values("% Upside/Downside", ascending=False) may leave
\* the rows in: every descending arrangement (the default sort is not stable,
\* so rows of equal upside may come out in either order).
SortedDescending(rows_) ==
    LET n == Len(rows_)
        perms == {p \in [1..n -> 1..n] : \A i, j \in 1..n : i # j => p[i] # p[j]}
    IN  {[i \in 1..n |-> rows_[p[i]]] : p \in
            {q \in perms : \A i \in 1..(n - 1) :
                rows_[q[i]].UpsideDownsidePct >= rows_[q[i + 1]].UpsideDownsidePct}}

\* Mutant of LoopBody: without the continue, the row left over from the
\* company before is appended again when the valuation is None.
LoopBody_no_continue(cd, rows_, row_) ==
    The({
        IF run.ret.kind = "raise"
        THEN [growth_rate |-> run.growth_rate, wacc |-> run.wacc,
              valuation |-> run.ret, upside_pct |-> Unset, signal |-> "unset",
              row |-> row_, rows |-> rows_, pc |-> "raised"]
        ELSE IF run.ret.kind = "None"
        THEN [growth_rate |-> run.growth_rate, wacc |-> run.wacc,
              valuation |-> run.ret, upside_pct |-> Unset, signal |-> "unset",
              row |-> row_,
              rows |-> IF row_.kind # "None" THEN Append(rows_, row_) ELSE rows_,
              pc |-> "run_valuation"]
        ELSE The({
                [growth_rate |-> run.growth_rate, wacc |-> run.wacc,
                 valuation |-> run.ret, upside_pct |-> built.upside_pct,
                 signal |-> built.signal, row |-> built.ret,
                 rows |-> IF built.ret.kind = "dict"
                          THEN Append(rows_, built.ret) ELSE rows_,
                 pc |-> IF built.ret.kind = "raise"
                        THEN "raised" ELSE "run_valuation"]
              : built \in {ValuationRowRun(run.ret)}})
      : run \in {IntrinsicValueRun(cd)}})

\* Mutant of LoopBody: the row is appended without the test for None.
LoopBody_append_none(cd, rows_, row_) ==
    The({
        IF run.ret.kind = "raise"
        THEN [growth_rate |-> run.growth_rate, wacc |-> run.wacc,
              valuation |-> run.ret, upside_pct |-> Unset, signal |-> "unset",
              row |-> row_, rows |-> rows_, pc |-> "raised"]
        ELSE IF run.ret.kind = "None"
        THEN [growth_rate |-> run.growth_rate, wacc |-> run.wacc,
              valuation |-> run.ret, upside_pct |-> Unset, signal |-> "unset",
              row |-> row_, rows |-> rows_, pc |-> "run_valuation"]
        ELSE The({
                [growth_rate |-> run.growth_rate, wacc |-> run.wacc,
                 valuation |-> run.ret, upside_pct |-> built.upside_pct,
                 signal |-> built.signal, row |-> built.ret,
                 rows |-> IF built.ret.kind # "raise"
                          THEN Append(rows_, built.ret) ELSE rows_,
                 pc |-> IF built.ret.kind = "raise"
                        THEN "raised" ELSE "run_valuation"]
              : built \in {ValuationRowRun(run.ret)}})
      : run \in {IntrinsicValueRun(cd)}})

\* Lines 105-111: one pass of the loop body for the company cd, entered with
\* the list rows_ and the local row_ as the pass before left them.  The locals
\* and rows as the pass leaves them; pc is "raised" when an exception escapes
\* (there is no handler in run_valuation) and "run_valuation" otherwise.
LoopBody(cd, rows_, row_) ==
    The({
        IF run.ret.kind = "raise"
        THEN [growth_rate |-> run.growth_rate, wacc |-> run.wacc,
              valuation |-> run.ret, upside_pct |-> Unset, signal |-> "unset",
              row |-> row_, rows |-> rows_, pc |-> "raised"]
        ELSE IF run.ret.kind = "None"
        THEN [growth_rate |-> run.growth_rate, wacc |-> run.wacc,
              valuation |-> run.ret, upside_pct |-> Unset, signal |-> "unset",
              row |-> row_, rows |-> rows_, pc |-> "run_valuation"]
        ELSE The({
                [growth_rate |-> run.growth_rate, wacc |-> run.wacc,
                 valuation |-> run.ret, upside_pct |-> built.upside_pct,
                 signal |-> built.signal, row |-> built.ret,
                 rows |-> IF built.ret.kind = "dict"
                          THEN Append(rows_, built.ret) ELSE rows_,
                 pc |-> IF built.ret.kind = "raise"
                        THEN "raised" ELSE "run_valuation"]
              : built \in {ValuationRowRun(run.ret)}})
      : run \in {IntrinsicValueRun(cd)}})

InitBatch ==
    /\ pc = "run_valuation"
    /\ company_data_list \in SeqsUpTo(BatchRecords, MaxBatch)
    /\ position = 0
    /\ rows = <<>>
    /\ company_data = NoneValue
    /\ growth_rate = Unset
    /\ wacc = Unset
    /\ valuation = NoneValue
    /\ upside_pct = Unset
    /\ signal = "unset"
    /\ row = NoneValue
    /\ args = NoneValue
    /\ result = NoneValue

\* The next pass of the for loop of lines 105-111.
RunValuationIteration ==
    /\ pc = "run_valuation"
    /\ position < Len(company_data_list)
    /\ LET body == LoopBody(company_data_list[position + 1], rows, row)
       IN  /\ company_data' = company_data_list[position + 1]
           /\ position' = position + 1
           /\ growth_rate' = body.growth_rate
           /\ wacc' = body.wacc
           /\ valuation' = body.valuation
           /\ upside_pct' = body.upside_pct
           /\ signal' = body.signal
           /\ row' = body.row
           /\ rows' = body.rows
           /\ pc' = body.pc
    /\ UNCHANGED <<args, result, company_data_list>>

\* Lines 100-102 and 113-122: the early returns of an empty DataFrame, else
\* the sorted DataFrame.
RunValuationReturn ==
    /\ pc = "run_valuation"
    /\ position = Len(company_data_list)
    /\ result' \in IF company_data_list = <<>> \/ rows = <<>>
                   THEN {DataFrame(<<>>)}
                   ELSE {DataFrame(sorted) : sorted \in SortedDescending(rows)}
    /\ pc' = "returned"
    /\ UNCHANGED <<company_data, growth_rate, wacc, valuation, upside_pct,
                   signal, row, args, company_data_list, position, rows>>

NextBatch == RunValuationIteration \/ RunValuationReturn

SpecBatch == InitBatch /\ [][NextBatch]_vars

----------------------------------------------------------------------------
(* data_fetcher.py: _extract_free_cash_flows *)

MaxColumns == 3

\* A cell of a DataFrame row: a number, or NaN for a missing value.
Cell(v) == [nan |-> FALSE, value |-> v]

NaN == [nan |-> TRUE, value |-> 0]

\* A label that is not in df.index.
NoRow == <<>>

OCF_LABELS == <<"Operating Cash Flow", "Total Cash From Operating Activities", "Cash From Operating Activities">>

CAPEX_LABELS == <<"Capital Expenditure", "Capital Expenditures", "Purchase Of PPE", "Purchases Of Property Plant And Equipment">>

\* _find_row: the row of the first label that is in df.index, else None.
RECURSIVE _find_row(_, _)
_find_row(df, labels) ==
    IF labels = <<>> THEN NoneValue
    ELSE IF Head(labels) \in DOMAIN df /\ df[Head(labels)] # NoRow
    THEN [kind |-> "Series", cells |-> df[Head(labels)]]
    ELSE _find_row(df, Tail(labels))

\* s[::-1]
RECURSIVE Reversed(_)
Reversed(s) == IF s = <<>> THEN <<>> ELSE Append(Reversed(Tail(s)), Head(s))

IsPresent(cell) == ~cell.nan

\* row.dropna().iloc[::-1].tolist(): the values that are not NaN, last column
\* first.
DropnaReversed(cells) == [i \in 1..Len(SelectSeq(cells, IsPresent)) |-> Reversed(SelectSeq(cells, IsPresent))[i].value]

\* zip(ocf_values, capex_values) under ocf - abs(capex): one value per position
\* the two lists share.
ZipFcf(ocf_values, capex_values) == [i \in 1..Min2(Len(ocf_values), Len(capex_values)) |-> ocf_values[i] - Abs(capex_values[i])]

_extract_free_cash_flows(cash_flow_df) ==
    LET ocf_row == _find_row(cash_flow_df, OCF_LABELS)
        capex_row == _find_row(cash_flow_df, CAPEX_LABELS)
    IN  IF ocf_row = NoneValue THEN <<>>
        ELSE IF capex_row # NoneValue
        THEN ZipFcf(DropnaReversed(ocf_row.cells),
                    DropnaReversed(capex_row.cells))
        ELSE DropnaReversed(ocf_row.cells)

\* Rows over the fiscal years, newest first; each of the two line items may be
\* missing from the frame and may miss any of its years.
OcfCells == {NaN, Cell(10000), Cell(30000)}

CapexCells == {NaN, Cell(-2000), Cell(5000)}

CashFlowFrames ==
    [{"Operating Cash Flow", "Purchase Of PPE"} ->
        {NoRow} \cup [1..MaxColumns -> OcfCells \cup CapexCells]]

ExtractInputs ==
    {df \in CashFlowFrames :
        /\ df["Operating Cash Flow"] # NoRow =>
              \A c \in 1..MaxColumns : df["Operating Cash Flow"][c] \in OcfCells
        /\ df["Purchase Of PPE"] # NoRow =>
              \A c \in 1..MaxColumns : df["Purchase Of PPE"][c] \in CapexCells}

InitExtract ==
    /\ pc = "_extract_free_cash_flows"
    /\ args \in ExtractInputs
    /\ result = NoneValue
    /\ company_data = NoneValue
    /\ growth_rate = Unset
    /\ wacc = Unset
    /\ valuation = NoneValue
    /\ upside_pct = Unset
    /\ signal = "unset"
    /\ row = NoneValue
    /\ company_data_list = <<>>
    /\ position = 0
    /\ rows = <<>>

ExtractFreeCashFlows ==
    /\ pc = "_extract_free_cash_flows"
    /\ result' = Return(_extract_free_cash_flows(args))
    /\ pc' = "returned"
    /\ UNCHANGED <<company_data, growth_rate, wacc, valuation, upside_pct,
                   signal, row, args, company_data_list, position, rows>>

NextExtract == ExtractFreeCashFlows

SpecExtract == InitExtract /\ [][NextExtract]_vars

----------------------------------------------------------------------------
(* build_valuation_row on its own *)

MaxIntrinsicCents == 12000

\* Valuations as calculate_intrinsic_value reports them: a price of 100.00,
\* 10.00 or 0.00 and an intrinsic value in whole cents around the price, so
\* that the upside passes through both thresholds in steps of 0.0001.
RowInputs ==
    [kind : {"dict"}, ticker : {"TEST"}, name : {"Test Corp"},
     sector : {"Technology"},
     current_price : {0, 100000, 1000000},
     intrinsic_value : {cents * 100 : cents \in 8000..MaxIntrinsicCents},
     wacc : {1025}, fcf_growth_rate : {3000}, base_fcf : {20000},
     shares_outstanding : {20000}]

InitRow ==
    /\ pc = "build_valuation_row"
    /\ valuation \in RowInputs
    /\ upside_pct = Unset
    /\ signal = "unset"
    /\ row = NoneValue
    /\ company_data = NoneValue
    /\ growth_rate = Unset
    /\ wacc = Unset
    /\ args = NoneValue
    /\ result = NoneValue
    /\ company_data_list = <<>>
    /\ position = 0
    /\ rows = <<>>

BuildRow ==
    /\ pc = "build_valuation_row"
    /\ LET run == ValuationRowRun(valuation)
       IN  /\ upside_pct' = run.upside_pct
           /\ signal' = run.signal
           /\ row' = run.ret
    /\ pc' = "returned"
    /\ UNCHANGED <<company_data, growth_rate, wacc, valuation, args, result,
                   company_data_list, position, rows>>

NextRow == BuildRow

SpecRow == InitRow /\ [][NextRow]_vars

----------------------------------------------------------------------------
(* Properties *)

\* The window historical_fcf[-5:] read off the history by position.
WindowLen(h) == IF Len(h) < 5 THEN Len(h) ELSE 5

WindowFirst(h) == h[Len(h) - WindowLen(h) + 1]

WindowLast(h) == h[Len(h)]

HasResultInputs ==
    /\ company_data.shares_outstanding > 0
    /\ company_data.historical_fcf # <<>>
    /\ company_data.historical_fcf[Len(company_data.historical_fcf)] # 0

\* C1: generate_signal returns Buy exactly when upside_pct >= 0.15, Sell
\* exactly when upside_pct <= -0.15 and Hold exactly for the values strictly
\* between; 0.15 itself is Buy and -0.15 itself is Sell.
C1_SignalThresholds ==
    pc = "returned" =>
        /\ signal \in {"Buy", "Hold", "Sell"}
        /\ signal = "Buy" <=> upside_pct.value >= 1500
        /\ signal = "Sell" <=> upside_pct.value <= -1500
        /\ signal = "Hold" <=> (-1500 < upside_pct.value /\ upside_pct.value < 1500)

C1_Witness ==
    /\ pc = "returned"
    /\ upside_pct.value = -1500
    /\ signal = "Sell"

\* C2: whenever market_cap + total_debt > 0, calculate_wacc returns a value,
\* and the value lies in [0.04, 0.25].
C2_WaccInRange ==
    (pc = "returned" /\ company_data.market_cap + company_data.total_debt > 0) =>
        /\ wacc.exc = "none"
        /\ 400 <= wacc.value
        /\ wacc.value <= 2500

C2_Witness ==
    /\ pc = "returned"
    /\ company_data.market_cap + company_data.total_debt > 0
    /\ company_data.market_cap < 0
    /\ company_data.tax_rate < 0
    /\ wacc.value = 2500

\* C3 as stated: every result of calculate_intrinsic_value reports a wacc in
\* [0.04, 0.25], records with market_cap = total_debt = 0 included.
C3_WaccAlwaysClamped ==
    valuation.kind = "dict" =>
        (400 <= valuation.wacc /\ valuation.wacc <= 2500)

\* C3 as amended: a result for a record with market_cap + total_debt > 0
\* reports a wacc in [0.04, 0.25]; with market_cap + total_debt <= 0 it reports
\* the cost of equity 0.045 + beta * 0.055 as it is, rounded to 4 decimals.
C3_WaccClampedWithCapital ==
    valuation.kind = "dict" =>
        IF company_data.market_cap + company_data.total_debt > 0
        THEN 400 <= valuation.wacc /\ valuation.wacc <= 2500
        ELSE valuation.wacc = Round(450 + MulFix(company_data.beta, 550), 4)

C3_Witness ==
    /\ valuation.kind = "dict"
    /\ company_data.market_cap + company_data.total_debt > 0
    /\ company_data.beta = 50000
    /\ valuation.wacc = 2500

\* C4: for every history calculate_historical_growth_rate returns a number
\* (no division by zero, no root of a negative base) in [-0.20, 0.30], and the
\* growth rate calculate_intrinsic_value goes on to use and report, after the
\* negative-base override, is in [-0.20, 0.30] as well.
C4_GrowthInRange ==
    pc = "returned" =>
        /\ growth_rate.exc = "none"
        /\ -2000 <= growth_rate.value
        /\ growth_rate.value <= 3000
        /\ valuation.kind # "raise"
        /\ valuation.kind = "growth" =>
              /\ -2000 <= Round(valuation.growth_rate, 4)
              /\ Round(valuation.growth_rate, 4) <= 3000

C4_Witness ==
    /\ pc = "returned"
    /\ Len(company_data.historical_fcf) = 4
    /\ company_data.historical_fcf[1] < 0
    /\ company_data.historical_fcf[2] = 0
    /\ growth_rate.value = 2000
    /\ valuation.kind = "growth"

\* C5: calculate_intrinsic_value returns None whenever historical_fcf is empty
\* and whenever its last element is 0, whatever the rest of the record.
C5_NoneOnEmptyOrZeroBase ==
    (/\ pc # "calculate_intrinsic_value"
     /\ \/ company_data.historical_fcf = <<>>
        \/ company_data.historical_fcf[Len(company_data.historical_fcf)] = 0) =>
        /\ valuation = NoneValue
        /\ pc = "skipped"
        /\ row = NoneValue

C5_Witness ==
    /\ pc = "skipped"
    /\ Len(company_data.historical_fcf) = 2
    /\ company_data.historical_fcf[1] > 0
    /\ company_data.historical_fcf[2] = 0
    /\ company_data.shares_outstanding > 0
    /\ company_data.current_price > 0

\* C6 as stated: calculate_intrinsic_value returns None whenever historical_fcf
\* has fewer than 2 elements.
C6_ShortHistoryFails ==
    (pc # "calculate_intrinsic_value" /\ Len(company_data.historical_fcf) < 2) =>
        valuation = NoneValue

\* C6 as amended: calculate_intrinsic_value returns None for the empty history;
\* for a one-element history it returns None only if the element is 0 or
\* shares_outstanding <= 0, and otherwise a result whose growth rate is the
\* default 0.05.
C6_SingleValueHistory ==
    pc # "calculate_intrinsic_value" =>
        /\ Len(company_data.historical_fcf) = 0 => valuation = NoneValue
        /\ Len(company_data.historical_fcf) = 1 =>
              IF company_data.historical_fcf[1] # 0
                   /\ company_data.shares_outstanding > 0
              THEN valuation.kind = "dict" /\ valuation.fcf_growth_rate = 500
              ELSE valuation = NoneValue

C6_Witness ==
    /\ Len(company_data.historical_fcf) = 1
    /\ company_data.historical_fcf[1] < 0
    /\ valuation.kind = "dict"
    /\ valuation.fcf_growth_rate = 500

\* C7: with shares_outstanding <= 0 calculate_intrinsic_value returns None (and
\* no division by the share count raises); with shares_outstanding > 0 and a
\* non-empty history whose last element is not 0 it returns a result.
C7_SharesGuard ==
    pc # "calculate_intrinsic_value" =>
        /\ company_data.shares_outstanding <= 0 => valuation = NoneValue
        /\ HasResultInputs => valuation.kind = "dict"

C7_Witness ==
    /\ pc = "skipped"
    /\ company_data.shares_outstanding = 0
    /\ company_data.historical_fcf # <<>>
    /\ company_data.historical_fcf[Len(company_data.historical_fcf)] # 0

\* C8: build_valuation_row returns None whenever current_price <= 0, without
\* dividing by it, while calculate_intrinsic_value returns for such a record
\* the result it returns for any other price, the price field apart.
C8_PriceRejectedAtClassification ==
    (pc # "calculate_intrinsic_value" /\ company_data.current_price <= 0) =>
        /\ pc \in {"skipped", "build_valuation_row"}
        /\ row = NoneValue
        /\ HasResultInputs => valuation.kind = "dict"
        /\ valuation.kind = "dict" =>
              valuation =
                [calculate_intrinsic_value(
                     [company_data EXCEPT !.current_price = 200000])
                 EXCEPT !.current_price = company_data.current_price]

C8_Witness ==
    /\ pc = "skipped"
    /\ company_data.current_price = 0
    /\ valuation.kind = "dict"
    /\ row = NoneValue

\* C9: for a history of length >= 2 whose window (its last min(5, length)
\* values) starts and ends strictly positive, calculate_historical_growth_rate
\* returns (last / first) ** (1 / n) - 1 with n = window length - 1, clamped to
\* [-0.20, 0.30]: the returned g is the clamped value of the rate r with
\* (1 + r) ** n <= last / first < (1 + r + 0.0001) ** n.  Only the window is
\* read, so older values have no effect.
C9_CagrOfWindow ==
    (/\ pc = "returned"
     /\ Len(company_data.historical_fcf) >= 2
     /\ WindowFirst(company_data.historical_fcf) > 0
     /\ WindowLast(company_data.historical_fcf) > 0) =>
        LET h     == company_data.historical_fcf
            n     == WindowLen(h) - 1
            ratio == DivFix(WindowLast(h), WindowFirst(h))
            g     == growth_rate.value
        IN  /\ growth_rate.exc = "none"
            /\ \/ g = 3000 /\ PowFix(SCALE + 3000, n) <= ratio
               \/ g = -2000 /\ ratio < PowFix(SCALE - 2000 + 1, n)
               \/ /\ -2000 <= g /\ g <= 3000
                  /\ PowFix(SCALE + g, n) <= ratio
                  /\ ratio < PowFix(SCALE + g + 1, n)

C9_Witness ==
    /\ pc = "returned"
    /\ Len(company_data.historical_fcf) = 6
    /\ company_data.historical_fcf[1] < 0
    /\ company_data.historical_fcf[2] = 10000
    /\ company_data.historical_fcf[4] = 0
    /\ company_data.historical_fcf[6] = 12000
    /\ growth_rate.value = 466

\* C10: calculate_historical_growth_rate returns the default 0.05 for the empty
\* history and for every one-element history, whatever the sign of the element.
C10_DefaultBelowTwoPoints ==
    (pc = "returned" /\ Len(company_data.historical_fcf) < 2) =>
        growth_rate = Return(500)

C10_Witness ==
    /\ pc = "returned"
    /\ Len(company_data.historical_fcf) = 1
    /\ company_data.historical_fcf[1] < 0
    /\ growth_rate = Return(500)

\* The growth rate of year t as the claim C11 states it:
\* g + ((t - 1) / max(years - 1, 1)) * (long_term - g).
ClaimedGrowth(t) == args.initial_growth_rate + MulFix(DivFix((t - 1) * SCALE, (IF args.years - 1 >= 1 THEN args.years - 1 ELSE 1) * SCALE), args.long_term_growth_rate - args.initial_growth_rate)

\* C11: project_free_cash_flows returns exactly `years` values with
\* fcf[t] = fcf[t-1] * (1 + growth[t]) and fcf[0] = base; the growth rate of
\* year 1 is g, that of the final year is long_term when years >= 2, and the
\* yearly growth rates never increase when g > long_term.
C11_ProjectionFormula ==
    pc = "returned" =>
        /\ result.exc = "none"
        /\ Len(result.value) = args.years
        /\ \A t \in 1..args.years :
              result.value[t] =
                  MulFix(IF t = 1 THEN args.base_fcf ELSE result.value[t - 1],
                         SCALE + ClaimedGrowth(t))
        /\ args.years >= 1 => ClaimedGrowth(1) = args.initial_growth_rate
        /\ args.years >= 2 =>
              ClaimedGrowth(args.years) = args.long_term_growth_rate
        /\ args.initial_growth_rate > args.long_term_growth_rate =>
              \A t \in 1..(args.years - 1) :
                  ClaimedGrowth(t + 1) <= ClaimedGrowth(t)

C11_Witness ==
    /\ pc = "returned"
    /\ args.years = PROJECTION_YEARS
    /\ args.base_fcf = 20000
    /\ args.initial_growth_rate = 3000
    /\ args.long_term_growth_rate = LONG_TERM_GROWTH_RATE
    /\ Len(result.value) = 7
    /\ result.value[1] = 26000
    /\ result.value[7] = 56139

\* The divisor of the perpetuity value as the claim C12 states it:
\* max(wacc - long_term_growth, 0.001).
ClaimedSpread == IF args.wacc - args.long_term_growth_rate >= 10 THEN args.wacc - args.long_term_growth_rate ELSE 10

\* C12: calculate_terminal_value returns the mean of the perpetuity value
\* terminal_fcf * (1 + long_term_growth) / max(wacc - long_term_growth, 0.001)
\* and the exit-multiple value terminal_fcf * exit_multiple; it returns for
\* every wacc, and the value is strictly positive when terminal_fcf > 0,
\* long_term_growth > -1 and exit_multiple > 0.
C12_TerminalValueBlend ==
    pc = "returned" =>
        /\ result.exc = "none"
        /\ result.value =
              DivFix(DivFix(MulFix(args.terminal_fcf,
                                   SCALE + args.long_term_growth_rate),
                            ClaimedSpread)
                       + MulFix(args.terminal_fcf, args.exit_multiple),
                     2 * SCALE)
        /\ (/\ args.terminal_fcf > 0
            /\ args.long_term_growth_rate > -SCALE
            /\ args.exit_multiple > 0) => result.value > 0

C12_Witness ==
    /\ pc = "returned"
    /\ args.terminal_fcf = 10000
    /\ args.wacc = 250
    /\ args.long_term_growth_rate = 250
    /\ args.exit_multiple = 200000
    /\ result = Return(5225000)

\* The sum over t = 1..n of cash_flows[t] / (1 + wacc)^t, as C13 states it.
RECURSIVE ClaimedPvOfFlows(_)
ClaimedPvOfFlows(n) == IF n = 0 THEN 0 ELSE ClaimedPvOfFlows(n - 1) + DivFix(args.cash_flows[n], PowFix(SCALE + args.wacc, n))

\* C13: discount_cash_flows returns the sum over t = 1..N of
\* cash_flows[t] / (1 + wacc)^t plus terminal_value / (1 + wacc)^N, N the
\* number of cash flows; an empty list returns the terminal value itself.
\* (At wacc = -1.0 with N >= 1 the divisor is zero and the call raises.)
C13_PresentValueFormula ==
    pc = "returned" =>
        LET N == Len(args.cash_flows)
        IN  IF args.wacc = -SCALE /\ N >= 1
            THEN result.exc = "ZeroDivisionError"
            ELSE /\ result.exc = "none"
                 /\ result.value =
                       ClaimedPvOfFlows(N)
                         + DivFix(args.terminal_value,
                                  PowFix(SCALE + args.wacc, N))
                 /\ N = 0 => result.value = args.terminal_value

C13_Witness ==
    /\ pc = "returned"
    /\ args.cash_flows = <<10000, 30000>>
    /\ args.terminal_value = 100000
    /\ args.wacc = 2500
    /\ result = Return(8000 + 19200 + 64000)

\* C14: for a non-empty list of strictly positive cash flows, a positive
\* terminal value and wacc > 0, the present value is strictly less than the
\* undiscounted sum of the cash flows plus the terminal value, and strictly
\* less than the present value at every smaller positive wacc.
C14_DiscountingReduces ==
    (/\ pc = "returned"
     /\ args.cash_flows # <<>>
     /\ \A t \in 1..Len(args.cash_flows) : args.cash_flows[t] > 0
     /\ args.terminal_value > 0
     /\ args.wacc > 0) =>
        /\ result.exc = "none"
        /\ result.value < SumSeq(args.cash_flows) + args.terminal_value
        /\ \A wacc1 \in DiscountWaccs :
              (0 < wacc1 /\ wacc1 < args.wacc) =>
                  discount_cash_flows(args.cash_flows, args.terminal_value,
                                      wacc1).value > result.value

C14_Witness ==
    /\ pc = "returned"
    /\ args.cash_flows = <<10000, 10000, 10000>>
    /\ args.terminal_value = 100000
    /\ args.wacc = 900
    /\ result.exc = "none"
    /\ result.value < 130000
    /\ discount_cash_flows(args.cash_flows, args.terminal_value, 400).value > result.value

\* The number of rows of the sequence rows_ that carry the ticker t.
RowsOf(rows_, t) == Cardinality({k \in 1..Len(rows_) : rows_[k].kind = "dict" /\ rows_[k].Ticker = t})

\* The number of passes made so far over the record cd.
PassesOver(cd) == Cardinality({i \in 1..position : company_data_list[i] = cd})

\* Every pass over a record had the same outcome, whatever was evaluated
\* before it or between two of them: either none contributed a row or each
\* contributed one, and the rows are the same row.
SameRecordSameOutput ==
    \A cd \in BatchRecords :
        /\ RowsOf(rows, cd.ticker) \in {0, PassesOver(cd)}
        /\ \A k, l \in 1..Len(rows) :
              (rows[k].Ticker = cd.ticker /\ rows[l].Ticker = cd.ticker)
                  => rows[k] = rows[l]

ProducesNoRow(cd) ==
    The({v.kind = "None" \/ (v.kind = "dict" /\ build_valuation_row(v).kind = "None") : v \in {calculate_intrinsic_value(cd)}})

\* C16: in run_valuation a company whose valuation or whose row is None
\* contributes no row and never aborts the batch: every other company, before
\* or after it, contributes exactly one row, and the returned result set has
\* those rows and no others (none at all if no company succeeds).
C16_FailuresAbsorbed ==
    /\ pc # "raised"
    /\ \A k \in 1..Len(rows) : rows[k].kind = "dict"
    /\ \A cd \in BatchRecords :
          RowsOf(rows, cd.ticker) =
              IF ProducesNoRow(cd) THEN 0 ELSE PassesOver(cd)
    /\ pc = "returned" =>
          /\ position = Len(company_data_list)
          /\ result.kind = "DataFrame"
          /\ Len(result.rows) = Len(rows)
          /\ \A cd \in BatchRecords :
                RowsOf(result.rows, cd.ticker) = RowsOf(rows, cd.ticker)
          /\ (\A i \in 1..Len(company_data_list) :
                 ProducesNoRow(company_data_list[i])) => result.rows = <<>>

C16_Witness ==
    /\ pc = "returned"
    /\ Len(company_data_list) = 3
    /\ company_data_list[1].ticker = "ZERO"
    /\ company_data_list[2].ticker = "GOOD"
    /\ company_data_list[3].ticker = "NOPX"
    /\ Len(result.rows) = 1
    /\ result.rows[1].Ticker = "GOOD"

\* The CAPM cost of equity of the record under evaluation:
\* risk_free_rate + beta * equity_risk_premium.
ClaimedCostOfEquity == RISK_FREE_RATE + MulFix(company_data.beta, EQUITY_RISK_PREMIUM)

\* C17 as stated: with market_cap + total_debt <= 0, calculate_wacc returns the
\* unclamped cost of equity, and that value is >= 0 for all inputs.
C17_ZeroCapitalNonNegative ==
    (pc = "returned" /\ company_data.market_cap + company_data.total_debt <= 0) =>
        /\ wacc.exc = "none"
        /\ wacc.value = ClaimedCostOfEquity
        /\ wacc.value >= 0

\* C17 as amended: with market_cap + total_debt <= 0, calculate_wacc returns
\* the unclamped cost of equity; it is >= risk_free_rate (so >= 0) for every
\* beta >= 0 and negative for every beta <= -1.
C17_ZeroCapitalCostOfEquity ==
    (pc = "returned" /\ company_data.market_cap + company_data.total_debt <= 0) =>
        /\ wacc.exc = "none"
        /\ wacc.value = ClaimedCostOfEquity
        /\ company_data.beta >= 0 => wacc.value >= RISK_FREE_RATE
        /\ company_data.beta <= -SCALE => wacc.value < 0

C17_Witness ==
    /\ pc = "returned"
    /\ company_data.market_cap = 0
    /\ company_data.total_debt = 0
    /\ company_data.beta = 50000
    /\ wacc = Return(3200)

\* The cost of debt kd as the claim C18 states it:
\* clamp(interest_expense / total_debt, 0.01, 0.20) if total_debt > 0 and
\* interest_expense > 0, and risk_free_rate + 0.015 otherwise.
ClaimedCostOfDebt == IF company_data.total_debt > 0 /\ company_data.interest_expense > 0 THEN Max2(100, Min2(2000, DivFix(company_data.interest_expense, company_data.total_debt))) ELSE RISK_FREE_RATE + 150

\* E/V * (rf + beta * erp) + D/V * kd * (1 - tax_rate), as C18 states it.
ClaimedWeightedSum ==
    LET total == company_data.market_cap + company_data.total_debt
    IN  MulFix(DivFix(company_data.market_cap, total), ClaimedCostOfEquity)
          + MulFix(DivFix(company_data.total_debt, total),
                   MulFix(ClaimedCostOfDebt, SCALE - company_data.tax_rate))

\* C18: when market_cap + total_debt > 0, calculate_wacc returns
\* clamp(E/V * (rf + beta * erp) + D/V * kd * (1 - tax_rate), 0.04, 0.25), the
\* cost of debt kd being clamped to [0.01, 0.20] before the weighting; with
\* total_debt = 0 the result is the cost of equity clamped to [0.04, 0.25],
\* whatever interest_expense and tax_rate are.
C18_WaccFormula ==
    (pc = "returned" /\ company_data.market_cap + company_data.total_debt > 0) =>
        /\ wacc.exc = "none"
        /\ wacc.value = Max2(400, Min2(2500, ClaimedWeightedSum))
        /\ company_data.total_debt = 0 =>
              wacc.value = Max2(400, Min2(2500, ClaimedCostOfEquity))

C18_Witness ==
    /\ pc = "returned"
    /\ company_data.beta = 12000
    /\ company_data.market_cap = 1500000
    /\ company_data.total_debt = 200000
    /\ company_data.interest_expense = 100000
    /\ company_data.tax_rate = 2100
    /\ ClaimedCostOfDebt = 2000
    /\ 400 < wacc.value
    /\ wacc.value < 2500

\* The positions i of the window of h (its last min(5, length) values, counted
\* from 1) at which both the value and its successor are strictly positive.
PositivePairs(h) == {i \in 1..(WindowLen(h) - 1) : h[Len(h) - WindowLen(h) + i] > 0 /\ h[Len(h) - WindowLen(h) + i + 1] > 0}

\* The sum of curr / prev - 1 over the pairs at the positions in P.
RECURSIVE SumOfYoy(_, _)
SumOfYoy(h, P) == IF P = {} THEN 0 ELSE LET i == CHOOSE j \in P : TRUE IN DivFix(h[Len(h) - WindowLen(h) + i + 1], h[Len(h) - WindowLen(h) + i]) - SCALE + SumOfYoy(h, P \ {i})

\* C19: for a history of length >= 2 whose window does not both start and end
\* strictly positive, calculate_historical_growth_rate returns the average of
\* curr / prev - 1 over exactly the adjacent pairs of the window with prev and
\* curr strictly positive, clamped to [-0.20, 0.30], and 0.03 if the window
\* has no such pair.
C19_YoyFallback ==
    (/\ pc = "returned"
     /\ Len(company_data.historical_fcf) >= 2
     /\ ~(/\ WindowFirst(company_data.historical_fcf) > 0
          /\ WindowLast(company_data.historical_fcf) > 0)) =>
        LET h == company_data.historical_fcf
            P == PositivePairs(h)
        IN  /\ growth_rate.exc = "none"
            /\ growth_rate.value =
                  IF P = {} THEN 300
                  ELSE Max2(-2000, Min2(3000,
                           DivFix(SumOfYoy(h, P), Cardinality(P) * SCALE)))

C19_Witness ==
    /\ pc = "returned"
    /\ company_data.historical_fcf = <<20000, 10000, 10000, 12000, 0, -10000>>
    /\ PositivePairs(company_data.historical_fcf) = {1, 2}
    /\ growth_rate = Return(1000)

\* C20: in calculate_intrinsic_value, when base_fcf < 0 the growth rate used
\* from step 1 on is max(estimated growth rate, 0.05), hence >= 0.05; when
\* base_fcf > 0 it is the estimated growth rate unchanged.
C20_RecoveryOverride ==
    (pc = "returned" /\ valuation.kind = "growth") =>
        LET base_fcf == WindowLast(company_data.historical_fcf)
        IN  /\ growth_rate.exc = "none"
            /\ base_fcf < 0 =>
                  /\ valuation.growth_rate >= 500
                  /\ valuation.growth_rate >= growth_rate.value
                  /\ valuation.growth_rate \in {500, growth_rate.value}
            /\ base_fcf > 0 => valuation.growth_rate = growth_rate.value

C20_Witness ==
    /\ pc = "returned"
    /\ company_data.historical_fcf = <<10000, 12000, -10000>>
    /\ growth_rate = Return(2000)
    /\ valuation.kind = "growth"
    /\ valuation.growth_rate = 2000

\* The present value PV as the claim C21 states it: the 7-year projection from
\* base_fcf at the growth rate used, plus the terminal value of the final
\* projected year, all discounted at the WACC used.
ClaimedPresentValue ==
    The({The({discount_cash_flows(projected, tv.value, wacc.value) : tv \in {calculate_terminal_value(projected[PROJECTION_YEARS], wacc.value, LONG_TERM_GROWTH_RATE, FCF_EXIT_MULTIPLE)}}) : projected \in {project_free_cash_flows(WindowLast(company_data.historical_fcf), growth_rate.value, PROJECTION_YEARS, LONG_TERM_GROWTH_RATE)}})

\* C21: in every result of calculate_intrinsic_value, intrinsic_value is
\* (PV - total_debt) / shares_outstanding rounded to 2 decimals, PV being the
\* discounted 7-year projection from the last historical value plus the
\* discounted terminal value, and the reported wacc and fcf_growth_rate are the
\* values used in that computation, rounded to 4 decimals.
C21_IntrinsicValueFormula ==
    valuation.kind = "dict" =>
        /\ growth_rate.exc = "none"
        /\ wacc.exc = "none"
        /\ ClaimedPresentValue.exc = "none"
        /\ valuation.intrinsic_value =
              Round(DivFix(ClaimedPresentValue.value - company_data.total_debt,
                           company_data.shares_outstanding), 2)
        /\ valuation.intrinsic_value % 100 = 0
        /\ valuation.wacc = Round(wacc.value, 4)
        /\ valuation.fcf_growth_rate = Round(growth_rate.value, 4)

C21_Witness ==
    /\ valuation.kind = "dict"
    /\ company_data.historical_fcf = <<10000, 20000>>
    /\ company_data.total_debt = 200000
    /\ company_data.market_cap = 1500000
    /\ company_data.beta = 12000
    /\ company_data.shares_outstanding = 20000
    /\ growth_rate.value = 3000
    /\ wacc.value = 1025
    /\ DivFix(ClaimedPresentValue.value - company_data.total_debt, company_data.shares_outstanding) = 236045
    /\ valuation.intrinsic_value = 236000

\* The record under evaluation has a negative latest FCF and the capital
\* structure, share count and price the claim C22 assumes.
NegativeBaseRecord ==
    /\ company_data.historical_fcf # <<>>
    /\ WindowLast(company_data.historical_fcf) < 0
    /\ company_data.shares_outstanding > 0
    /\ company_data.total_debt >= 0
    /\ company_data.market_cap + company_data.total_debt > 0
    /\ company_data.current_price > 0

\* C22: for a record whose latest FCF is negative, with shares > 0,
\* total_debt >= 0, market_cap + total_debt > 0 and price > 0, the pipeline
\* returns a result, every projected cash flow is negative, the intrinsic
\* value is <= 0, and the row built from it carries the signal Sell.
C22_NegativeBaseSells ==
    (NegativeBaseRecord /\ pc # "calculate_intrinsic_value") =>
        /\ pc \in {"build_valuation_row", "appended"}
        /\ valuation.kind = "dict"
        /\ growth_rate.exc = "none"
        /\ LET projected == project_free_cash_flows(WindowLast(company_data.historical_fcf), growth_rate.value, PROJECTION_YEARS, LONG_TERM_GROWTH_RATE)
           IN  \A t \in 1..PROJECTION_YEARS : projected[t] < 0
        /\ valuation.intrinsic_value <= 0
        /\ pc = "appended" =>
              /\ row.kind = "dict"
              /\ signal = "Sell"
              /\ row.ValuationSignal = "Sell"

C22_Witness ==
    /\ pc = "appended"
    /\ NegativeBaseRecord
    /\ company_data.historical_fcf = <<-10000, -10000>>
    /\ company_data.market_cap = 0
    /\ company_data.beta = 50000
    /\ valuation.intrinsic_value < 0
    /\ row.ValuationSignal = "Sell"

\* The fiscal years (columns, 1 the newest) of the frame under extraction in
\* which both the operating cash flow and the capital expenditure are present.
YearsWithBoth == {c \in 1..MaxColumns : ~args["Operating Cash Flow"][c].nan /\ ~args["Purchase Of PPE"][c].nan}

\* The FCF of the years in Y, oldest (highest column) first, each the operating
\* cash flow of the year minus the absolute capital expenditure of that year.
RECURSIVE FcfByYear(_)
FcfByYear(Y) == IF Y = {} THEN <<>> ELSE LET c == CHOOSE d \in Y : \A e \in Y : d >= e IN <<args["Operating Cash Flow"][c].value - Abs(args["Purchase Of PPE"][c].value)>> \o FcfByYear(Y \ {c})

\* C23: _extract_free_cash_flows returns, oldest first, the operating cash flow
\* of each fiscal year minus the absolute capital expenditure of that same
\* year, years with a missing value dropped, also when the two rows miss
\* different years; without a capital-expenditure row it returns the operating
\* cash flows alone, and without an operating-cash-flow row the empty list.
C23_FcfPairedByYear ==
    pc = "returned" =>
        /\ result.exc = "none"
        /\ result.value =
              IF args["Operating Cash Flow"] = NoRow THEN <<>>
              ELSE IF args["Purchase Of PPE"] = NoRow
              THEN DropnaReversed(args["Operating Cash Flow"])
              ELSE FcfByYear(YearsWithBoth)

\* C24: in every row built by build_valuation_row the signal is that of the
\* unrounded ratio (intrinsic_value - current_price) / current_price, and the
\* percentage displayed, rounded to one decimal, agrees with it: >= 15.0 in a
\* Buy row, <= -15.0 in a Sell row, within [-15.0, 15.0] in a Hold row.
C24_SignalMatchesDisplay ==
    (pc = "returned" /\ row.kind = "dict") =>
        LET ratio == DivFix(valuation.intrinsic_value - valuation.current_price, valuation.current_price)
            shown == row.UpsideDownsidePct
        IN  /\ upside_pct = Return(ratio)
            /\ row.ValuationSignal = signal
            /\ signal = "Buy" <=> ratio >= 1500
            /\ signal = "Sell" <=> ratio <= -1500
            /\ signal = "Hold" <=> (-1500 < ratio /\ ratio < 1500)
            /\ shown % 1000 = 0
            /\ signal = "Buy" => shown >= 150000
            /\ signal = "Sell" => shown <= -150000
            /\ signal = "Hold" => (-150000 <= shown /\ shown <= 150000)

\* A Hold row that displays 15.0: the ratio 0.1496 is below the threshold.
C24_Witness ==
    /\ pc = "returned"
    /\ valuation.current_price = 1000000
    /\ valuation.intrinsic_value = 1149600
    /\ upside_pct = Return(1496)
    /\ row.ValuationSignal = "Hold"
    /\ row.UpsideDownsidePct = 150000

====
